---- MODULE Spec2Model ----
(***************************************************************************)
(* Model of src/recommendation.py: the TF-IDF + cosine-similarity          *)
(* recommendation engine (load_programs, build_user_profile,               *)
(* tags_to_vector, build_idf, apply_tfidf, cosine_similarity, recommend).  *)
(*                                                                         *)
(* Conventions                                                             *)
(*  - A Python dict is a TLA+ function whose DOMAIN is the dict's key set, *)
(*    so d.get(k, default) and the KeyError of d[k] are both expressible.  *)
(*  - The Cyrillic tag literals of the source are written in ASCII with a  *)
(*    "ru:" prefix ("ru:sport" is the source's Russian word for sport), so *)
(*    that a canonical tag never coincides with its English synonym.       *)
(*  - Reals are exact rationals over integers.  A TF or TF-IDF vector is   *)
(*    [num : tag -> Nat, den : Nat], meaning weight(tag) = num[tag]/den.   *)
(*    IDF weights are kept in tenths (ln rounded to one decimal).  A       *)
(*    cosine similarity s >= 0 is kept as its square, the exact rational   *)
(*    [num, den] = s^2, which orders exactly as s does; round(s, 3) is     *)
(*    kept in thousandths.                                                 *)
(***************************************************************************)
EXTENDS Integers, Sequences, FiniteSets, TLC

VARIABLES
    pc,               \* position inside recommend(): start, loaded, profiled, scored, done, raised
    user_answers,     \* argument user_answers
    programs_is_None, \* TRUE when recommend() is called without a catalog
    source,           \* what the file "programs.json" holds
    programs,         \* argument / local programs
    top_n,            \* argument top_n
    user_tags,        \* local user_tags
    idf,              \* local idf
    user_tfidf,       \* local user_tfidf
    scored_programs,  \* local scored_programs
    result,           \* the returned list
    raised            \* the exception that left recommend(), or "none"

vars == <<pc, user_answers, programs_is_None, source, programs, top_n,
          user_tags, idf, user_tfidf, scored_programs, result, raised>>

-----------------------------------------------------------------------------
(* Bounds of the model *)

MaxPrograms == 3

MaxTopN == 3

MaxInterests == 2

-----------------------------------------------------------------------------
(* Generic helpers *)

\* d.get(k, default)
Get(d, k, default) == IF k \in DOMAIN d THEN d[k] ELSE default

Min(a, b) == IF a <= b THEN a ELSE b

Max(a, b) == IF a >= b THEN a ELSE b

\* SliceTo with the end index taken inclusively.
SliceToInclusive(lst, n) ==
    IF n >= 0 THEN SubSeq(lst, 1, Min(n + 1, Len(lst)))
    ELSE SubSeq(lst, 1, Max(0, Len(lst) + n + 1))

\* lst[:n], for any integer n (a negative n counts from the end)
SliceTo(lst, n) ==
    IF n >= 0 THEN SubSeq(lst, 1, Min(n, Len(lst)))
    ELSE SubSeq(lst, 1, Max(0, Len(lst) + n))

\* set(lst)
SetOf(lst) == {lst[i] : i \in DOMAIN lst}

\* Counter(lst)[x]
Count(lst, x) == Cardinality({i \in DOMAIN lst : lst[i] = x})

RECURSIVE SumOver(_, _)
\* sum(f[k] for k in S)
SumOver(f, S) ==
    IF S = {} THEN 0
    ELSE LET k == CHOOSE x \in S : TRUE IN f[k] + SumOver(f, S \ {k})

RECURSIVE RatLess(_, _, _, _)
\* a/b < c/d for a, c >= 0 and b, d > 0, exactly and without forming a*d
RatLess(a, b, c, d) ==
    LET q1 == a \div b
        q2 == c \div d
        r1 == a % b
        r2 == c % d
    IN  IF q1 # q2 THEN q1 < q2
        ELSE IF r2 = 0 THEN FALSE
        ELSE IF r1 = 0 THEN TRUE
        ELSE RatLess(d, r2, b, r1)

-----------------------------------------------------------------------------
(* build_user_profile *)

mood_map ==
    ("active" :> "ru:aktivnyj") @@ ("relaxed" :> "ru:rasslablennyj") @@
    ("ru:aktivnyj" :> "ru:aktivnyj") @@ ("ru:rasslablennyj" :> "ru:rasslablennyj")

budget_map ==
    ("low" :> "ru:nizkij_bjudzhet") @@ ("medium" :> "ru:srednij_bjudzhet") @@
    ("high" :> "ru:vysokij_bjudzhet") @@ ("ru:nizkij" :> "ru:nizkij_bjudzhet") @@
    ("ru:srednij" :> "ru:srednij_bjudzhet") @@ ("ru:vysokij" :> "ru:vysokij_bjudzhet")

company_map ==
    ("alone" :> "ru:odin") @@ ("couple" :> "ru:para") @@ ("friends" :> "ru:kompanija") @@
    ("ru:odin" :> "ru:odin") @@ ("ru:para" :> "ru:para") @@
    ("ru:kompanija" :> "ru:kompanija")

time_map ==
    ("morning" :> "ru:utro") @@ ("day" :> "ru:den") @@ ("evening" :> "ru:vecher") @@
    ("night" :> "ru:noch") @@ ("ru:utro" :> "ru:utro") @@ ("ru:den" :> "ru:den") @@
    ("ru:vecher" :> "ru:vecher") @@ ("ru:noch" :> "ru:noch")

location_map ==
    ("indoor" :> "ru:v_pomeshhenii") @@ ("outdoor" :> "ru:na_ulice") @@
    ("ru:v_pomeshhenii" :> "ru:v_pomeshhenii") @@ ("ru:na_ulice" :> "ru:na_ulice")

interest_map ==
    ("sport" :> "ru:sport") @@ ("creative" :> "ru:tvorchestvo") @@ ("food" :> "ru:eda") @@
    ("music" :> "ru:muzyka") @@ ("nature" :> "ru:priroda") @@ ("extreme" :> "ru:ekstrim") @@
    ("romance" :> "ru:romantika") @@ ("games" :> "ru:igry") @@ ("spa" :> "ru:spa") @@
    ("movies" :> "ru:kino")

\* The five scalar categories in the order the source handles them.
ScalarCategories == <<"mood", "budget", "company", "time", "location">>

CategoryMap(cat) ==
    CASE cat = "mood" -> mood_map
      [] cat = "budget" -> budget_map
      [] cat = "company" -> company_map
      [] cat = "time" -> time_map
      [] cat = "location" -> location_map

\* ScalarTags with a value unknown to the table dropped instead of kept.
ScalarTagsMissingUnknown(answers, cat) ==
    IF cat \in DOMAIN answers.scalars /\ answers.scalars[cat] \in DOMAIN CategoryMap(cat)
    THEN <<CategoryMap(cat)[answers.scalars[cat]]>>
    ELSE <<>>

\* if answers.get(cat): tags.append(cat_map.get(answers[cat], answers[cat]))
\* A str is truthy exactly when it is not empty.
ScalarTags(answers, cat) ==
    IF cat \in DOMAIN answers.scalars /\ answers.scalars[cat] # ""
    THEN <<Get(CategoryMap(cat), answers.scalars[cat], answers.scalars[cat])>>
    ELSE <<>>

\* interests = answers.get("interests", []); a str becomes [interests]
InterestList(answers) ==
    CASE answers.interests.kind = "absent" -> <<>>
      [] answers.interests.kind = "str" -> <<answers.interests.str>>
      [] answers.interests.kind = "list" -> answers.interests.list

build_user_profile(answers) ==
    LET interests == InterestList(answers)
    IN  ScalarTags(answers, "mood") \o ScalarTags(answers, "budget") \o
        ScalarTags(answers, "company") \o ScalarTags(answers, "time") \o
        ScalarTags(answers, "location") \o
        [j \in DOMAIN interests |-> Get(interest_map, interests[j], interests[j])]

-----------------------------------------------------------------------------
(* tags_to_vector, build_idf, apply_tfidf, cosine_similarity *)

\* counter = Counter(tags); total = len(tags) if tags else 1
\* {tag: count / total}
tags_to_vector(tags) ==
    [num |-> [t \in SetOf(tags) |-> Count(tags, t)],
     den |-> IF Len(tags) > 0 THEN Len(tags) ELSE 1]

\* 1000 * ln(k), rounded, for k = 1 .. 8
LnMilli == <<0, 693, 1099, 1386, 1609, 1792, 1946, 2079>>

\* math.log(n / c), in tenths
LogTenths(n, c) == (LnMilli[n] - LnMilli[c] + 50) \div 100

\* The tags of one program: program.get("tags", [])
ProgramTags(program) == Get(program, "tags", <<>>)

\* DocCount without set(): every occurrence of the tag counts.
DocCountWithRepeats(progs, tag) ==
    SumOver([i \in DOMAIN progs |-> Count(ProgramTags(progs[i]), tag)], DOMAIN progs)

\* tag_doc_count[tag]: the programs whose set(tags) holds the tag
DocCount(progs, tag) ==
    Cardinality({i \in DOMAIN progs : tag \in SetOf(ProgramTags(progs[i]))})

\* idf[tag] = math.log(num_programs / count) + 1, in tenths
build_idf(progs) ==
    LET num_programs == Len(progs)
        all_tags == UNION {SetOf(ProgramTags(progs[i])) : i \in DOMAIN progs}
    IN  [tag \in all_tags |-> LogTenths(num_programs, DocCount(progs, tag)) + 10]

\* {tag: tf * idf.get(tag, 1.0)}; 1.0 is 10 tenths
apply_tfidf(tf_vector, idf_table) ==
    [num |-> [t \in DOMAIN tf_vector.num |-> tf_vector.num[t] * Get(idf_table, t, 10)],
     den |-> tf_vector.den * 10]

ZeroScore == [num |-> 0, den |-> 1]

\* cosine_similarity dividing by norm1 alone: the square of dot_product / norm1.
cosine_similarity_one_norm(vec1, vec2) ==
    LET common_keys == DOMAIN vec1.num \cap DOMAIN vec2.num
        dot_product == SumOver([k \in common_keys |-> vec1.num[k] * vec2.num[k]], common_keys)
        norm1sq == SumOver([k \in DOMAIN vec1.num |-> vec1.num[k] * vec1.num[k]], DOMAIN vec1.num)
    IN  IF common_keys = {} THEN ZeroScore
        ELSE IF norm1sq = 0 THEN ZeroScore
        ELSE [num |-> dot_product * dot_product, den |-> norm1sq * vec2.den * vec2.den]

\* The square of dot_product / (norm1 * norm2); the two denominators cancel.
cosine_similarity(vec1, vec2) ==
    LET common_keys == DOMAIN vec1.num \cap DOMAIN vec2.num
        dot_product == SumOver([k \in common_keys |-> vec1.num[k] * vec2.num[k]], common_keys)
        norm1sq == SumOver([k \in DOMAIN vec1.num |-> vec1.num[k] * vec1.num[k]], DOMAIN vec1.num)
        norm2sq == SumOver([k \in DOMAIN vec2.num |-> vec2.num[k] * vec2.num[k]], DOMAIN vec2.num)
    IN  IF common_keys = {} THEN ZeroScore
        ELSE IF norm1sq = 0 \/ norm2sq = 0 THEN ZeroScore
        ELSE [num |-> dot_product * dot_product, den |-> norm1sq * norm2sq]

\* a < b for two similarities
ScoreLess(a, b) == RatLess(a.num, a.den, b.num, b.den)

\* round(score, 3) >= k / 1000, i.e. score >= (2k - 1) / 2000
RoundsToAtLeast(score, k) ==
    k = 0 \/ ~RatLess(score.num, score.den, (2 * k - 1) * (2 * k - 1), 4000000)

RECURSIVE RoundSearch(_, _, _)
RoundSearch(score, lo, hi) ==
    IF lo = hi THEN lo
    ELSE LET mid == (lo + hi + 1) \div 2
         IN  IF RoundsToAtLeast(score, mid) THEN RoundSearch(score, mid, hi)
             ELSE RoundSearch(score, lo, mid - 1)

\* round(score, 3), in thousandths
RoundMilli(score) == RoundSearch(score, 0, 2000)

-----------------------------------------------------------------------------
(* load_programs *)

\* with open(filepath) as f: data = json.load(f); return data.get("programs", [])
load_programs(src) ==
    CASE src.kind = "missing" -> [exc |-> "FileNotFoundError", value |-> <<>>]
      [] src.kind = "invalid_json" -> [exc |-> "JSONDecodeError", value |-> <<>>]
      [] src.kind = "array" -> [exc |-> "AttributeError", value |-> <<>>]
      [] src.kind = "object" ->
            [exc |-> "none", value |-> IF src.has_programs THEN src.programs ELSE <<>>]

-----------------------------------------------------------------------------
(* recommend: the scoring loop, the sort and the projection *)

\* program.get("visible", True)
PassesFilter(program) == Get(program, "visible", TRUE)

\* ScoreAll keeping only the programs with a positive similarity.
ScoreAllDropZero(progs, utfidf, idf_table) ==
    LET kept == SelectSeq(progs, LAMBDA p :
                    /\ PassesFilter(p)
                    /\ cosine_similarity(utfidf,
                          apply_tfidf(tags_to_vector(ProgramTags(p)), idf_table)).num > 0)
    IN  [i \in DOMAIN kept |->
            [score |-> cosine_similarity(utfidf,
                          apply_tfidf(tags_to_vector(ProgramTags(kept[i])), idf_table)),
             program |-> kept[i]]]

\* for program in programs: if not visible: continue; ...append((score, program))
ScoreAll(progs, utfidf, idf_table) ==
    LET kept == SelectSeq(progs, PassesFilter)
    IN  [i \in DOMAIN kept |->
            [score |-> cosine_similarity(utfidf,
                          apply_tfidf(tags_to_vector(ProgramTags(kept[i])), idf_table)),
             program |-> kept[i]]]

\* InsertPos placing e before the entries of equal score.
InsertPosBeforeEqual(sorted, e) ==
    IF \E i \in DOMAIN sorted : ~ScoreLess(e.score, sorted[i].score)
    THEN CHOOSE i \in DOMAIN sorted :
            /\ ~ScoreLess(e.score, sorted[i].score)
            /\ \A j \in 1..(i - 1) : ScoreLess(e.score, sorted[j].score)
    ELSE Len(sorted) + 1

\* The position a stable descending sort gives e among the already sorted
\* entries: after every entry whose score is not smaller than e's.
InsertPos(sorted, e) ==
    IF \E i \in DOMAIN sorted : ScoreLess(sorted[i].score, e.score)
    THEN CHOOSE i \in DOMAIN sorted :
            /\ ScoreLess(sorted[i].score, e.score)
            /\ \A j \in 1..(i - 1) : ~ScoreLess(sorted[j].score, e.score)
    ELSE Len(sorted) + 1

InsertDesc(sorted, e) ==
    LET p == InsertPos(sorted, e)
    IN  SubSeq(sorted, 1, p - 1) \o <<e>> \o SubSeq(sorted, p, Len(sorted))

RECURSIVE SortPrefix(_, _)
SortPrefix(lst, n) ==
    IF n = 0 THEN <<>> ELSE InsertDesc(SortPrefix(lst, n - 1), lst[n])

\* scored_programs.sort(key=lambda x: x[0], reverse=True): list.sort is stable,
\* and reverse=True keeps the original order of equal keys.
SortByScoreDesc(lst) == SortPrefix(lst, Len(lst))

\* One dict of the result; name, details, video_url and photo_url are copied
\* through like id and are left out.
Project(entry) ==
    [id |-> entry.program.id,
     visible |-> entry.program.visible,
     score |-> RoundMilli(entry.score)]

-----------------------------------------------------------------------------
(* The inputs *)

EmptyDict == [k \in {} |-> ""]

\* Nothing, or the one key k with a value of vals
Opt(k, vals) == {EmptyDict} \cup {k :> v : v \in vals}

NoInterests == [kind |-> "absent", str |-> "", list |-> <<>>]

StrInterest(s) == [kind |-> "str", str |-> s, list |-> <<>>]

ListInterest(l) == [kind |-> "list", str |-> "", list |-> l]

SeqsUpTo(S, n) == UNION {[1..k -> S] : k \in 0..n}

\* The answers recommend() is run on: mood absent, empty or known, and a few
\* interests that overlap the catalog's tags fully, partly or not at all.
RecommendAnswers ==
    {[scalars |-> sc, interests |-> it] :
        sc \in Opt("mood", {"", "active"}),
        it \in {NoInterests, StrInterest("spa")} \cup
               {ListInterest(l) : l \in {<<>>, <<"sport">>,
                                          <<"sport", "spa">>, <<"chill">>}}}

\* The answers build_user_profile is run on alone: every scalar category
\* absent, empty, known to its table or unknown to it; interests absent, a
\* single str, or a list.
ProfileAnswers ==
    {[scalars |-> m @@ b @@ c @@ t @@ l, interests |-> it] :
        m \in Opt("mood", {"", "active", "zzz"}),
        b \in Opt("budget", {"", "ru:nizkij", "zzz"}),
        c \in Opt("company", {"", "friends", "zzz"}),
        t \in Opt("time", {"", "night", "zzz"}),
        l \in Opt("location", {"", "outdoor", "zzz"}),
        it \in {NoInterests} \cup {StrInterest(s) : s \in {"", "sport", "zzz"}} \cup
               {ListInterest(x) : x \in SeqsUpTo({"sport", "zzz"}, MaxInterests)}}

TagLists == {<<>>, <<"ru:aktivnyj", "ru:sport">>, <<"ru:sport", "ru:spa", "ru:spa">>}

\* A catalog item: id always; visible true, false or absent; tags a list or
\* absent.
ItemsWithId(i) ==
    {[id |-> i, visible |-> v, tags |-> t] : v \in BOOLEAN, t \in TagLists} \cup
    {[id |-> i, tags |-> t] : t \in TagLists} \cup
    {[id |-> i, visible |-> TRUE]}

RECURSIVE CatalogsOfLen(_)
\* The catalogs of n items; the item at position i has id i.
CatalogsOfLen(n) ==
    IF n = 0 THEN {<<>>}
    ELSE {Append(c, it) : c \in CatalogsOfLen(n - 1), it \in ItemsWithId(n)}

Catalogs == UNION {CatalogsOfLen(n) : n \in 0..MaxPrograms}

\* What "programs.json" can hold: no file, no JSON, a JSON array, a JSON
\* object without the key "programs", a JSON object with it.
Sources ==
    {[kind |-> k, has_programs |-> FALSE, programs |-> <<>>] :
        k \in {"missing", "invalid_json", "array", "object"}} \cup
    {[kind |-> "object", has_programs |-> TRUE, programs |-> c] :
        c \in CatalogsOfLen(0) \cup CatalogsOfLen(1)}

NoFile == [kind |-> "missing", has_programs |-> FALSE, programs |-> <<>>]

TopNs == (-1)..MaxTopN

-----------------------------------------------------------------------------
(* recommend *)

Locals ==
    /\ pc = "start"
    /\ user_tags = <<>>
    /\ idf = EmptyDict
    /\ user_tfidf = [num |-> EmptyDict, den |-> 1]
    /\ scored_programs = <<>>
    /\ result = <<>>
    /\ raised = "none"

Init ==
    /\ Locals
    /\ user_answers \in RecommendAnswers
    /\ top_n \in TopNs
    /\ \/ programs_is_None = FALSE /\ programs \in Catalogs /\ source = NoFile
       \/ programs_is_None = TRUE /\ programs = <<>> /\ source \in Sources

\* if programs is None: programs = load_programs()
LoadDefault ==
    /\ pc = "start"
    /\ programs_is_None
    /\ LET r == load_programs(source)
       IN  IF r.exc # "none"
           THEN /\ pc' = "raised"
                /\ raised' = r.exc
                /\ UNCHANGED programs
           ELSE /\ pc' = "loaded"
                /\ programs' = r.value
                /\ UNCHANGED raised
    /\ UNCHANGED <<user_answers, programs_is_None, source, top_n, user_tags, idf,
                   user_tfidf, scored_programs, result>>

\* user_tags = build_user_profile(user_answers)
BuildProfile ==
    /\ \/ pc = "start" /\ ~programs_is_None
       \/ pc = "loaded"
    /\ user_tags' = build_user_profile(user_answers)
    /\ pc' = "profiled"
    /\ UNCHANGED <<user_answers, programs_is_None, source, programs, top_n, idf,
                   user_tfidf, scored_programs, result, raised>>

\* if not user_tags: return programs[:top_n]
ReturnFirstN ==
    /\ pc = "profiled"
    /\ user_tags = <<>>
    /\ result' = SliceTo(programs, top_n)
    /\ pc' = "done"
    /\ UNCHANGED <<user_answers, programs_is_None, source, programs, top_n, user_tags,
                   idf, user_tfidf, scored_programs, raised>>

\* idf, user_tfidf and the loop that fills scored_programs
ScorePrograms ==
    /\ pc = "profiled"
    /\ user_tags # <<>>
    /\ idf' = build_idf(programs)
    /\ user_tfidf' = apply_tfidf(tags_to_vector(user_tags), idf')
    /\ scored_programs' = ScoreAll(programs, user_tfidf', idf')
    /\ pc' = "scored"
    /\ UNCHANGED <<user_answers, programs_is_None, source, programs, top_n, user_tags,
                   result, raised>>

\* The sort, then one dict per entry of scored_programs[:top_n];
\* program["visible"] raises KeyError when the key is absent.
SortAndReturn ==
    /\ pc = "scored"
    /\ scored_programs' = SortByScoreDesc(scored_programs)
    /\ LET top == SliceTo(scored_programs', top_n)
       IN  IF \E i \in DOMAIN top : "visible" \notin DOMAIN top[i].program
           THEN /\ pc' = "raised"
                /\ raised' = "KeyError"
                /\ UNCHANGED result
           ELSE /\ pc' = "done"
                /\ result' = [i \in DOMAIN top |-> Project(top[i])]
                /\ UNCHANGED raised
    /\ UNCHANGED <<user_answers, programs_is_None, source, programs, top_n, user_tags,
                   idf, user_tfidf>>

Next == LoadDefault \/ BuildProfile \/ ReturnFirstN \/ ScorePrograms \/ SortAndReturn

Spec == Init /\ [][Next]_vars

-----------------------------------------------------------------------------
(* build_user_profile on its own, over the wider answers *)

InitProfile ==
    /\ Locals
    /\ user_answers \in ProfileAnswers
    /\ top_n = 0
    /\ programs_is_None = FALSE
    /\ programs = <<>>
    /\ source = NoFile

NextProfile == BuildProfile

SpecProfile == InitProfile /\ [][NextProfile]_vars

-----------------------------------------------------------------------------
(* Vocabulary of the properties *)

Returned == pc = "done"

ScoredPath == user_tags # <<>>

\* The catalog items the visibility filter lets through, in catalog order.
VisiblePrograms == SelectSeq(programs, PassesFilter)

\* The program shares at least one tag with the user's tags.
Shares(program) == SetOf(ProgramTags(program)) \cap SetOf(user_tags) # {}

SameScore(a, b) == ~ScoreLess(a, b) /\ ~ScoreLess(b, a)

\* idf has been computed from programs.
IdfBuilt == (ScoredPath /\ pc \in {"scored", "done"}) \/ raised = "KeyError"

\* The programs whose tags hold the tag.
DocsWith(tag) == {i \in DOMAIN programs : tag \in SetOf(ProgramTags(programs[i]))}

AllCatalogTags == UNION {SetOf(ProgramTags(programs[i])) : i \in DOMAIN programs}

-----------------------------------------------------------------------------
(* C1 *)

\* C1: no item whose visible flag is false appears in the list recommend
\* returns, whatever the answers, the catalog and topN.
C1_NoInvisibleReturned ==
    Returned =>
        \A i \in DOMAIN result :
            ~("visible" \in DOMAIN result[i] /\ result[i].visible = FALSE)

(* C2 *)

\* C2: when the answers yield no tags, recommend returns exactly the first
\* topN visible items of the catalog, in catalog order.
C2_FallbackFirstVisible ==
    (Returned /\ ~ScoredPath /\ top_n >= 0) =>
        result = SliceTo(SelectSeq(programs, LAMBDA p : Get(p, "visible", TRUE)), top_n)

(* C3 *)

\* C3: in the scored path the output is ordered by non-increasing similarity,
\* and two items of equal similarity keep their relative catalog order.
C3_SortedAndStable ==
    (Returned /\ ScoredPath) =>
        /\ \A i, j \in DOMAIN scored_programs :
              i < j =>
                /\ ~ScoreLess(scored_programs[i].score, scored_programs[j].score)
                /\ SameScore(scored_programs[i].score, scored_programs[j].score)
                      => scored_programs[i].program.id < scored_programs[j].program.id
        /\ Len(result) <= Len(scored_programs)
        /\ \A i \in DOMAIN result : result[i].id = scored_programs[i].program.id

\* Three items returned: the first moved ahead of an earlier catalog item, the
\* other two tied on a positive score and in catalog order.
C3_Witness ==
    /\ Returned /\ ScoredPath
    /\ Len(result) = 3
    /\ result[1].id > result[2].id
    /\ SameScore(scored_programs[2].score, scored_programs[3].score)
    /\ scored_programs[2].score.num > 0
    /\ result[2].id < result[3].id

(* C4 *)

\* C4: every visible item sharing a tag with the user is ranked before every
\* visible item sharing none; the items sharing none are kept, with score 0,
\* and fill the positions up to topN.
C4_OverlapRanksFirst ==
    (Returned /\ ScoredPath) =>
        /\ \A i, j \in DOMAIN scored_programs :
              (i < j /\ Shares(scored_programs[j].program))
                  => Shares(scored_programs[i].program)
        /\ {scored_programs[i].program : i \in DOMAIN scored_programs}
              = {VisiblePrograms[i] : i \in DOMAIN VisiblePrograms}
        /\ Len(scored_programs) = Len(VisiblePrograms)
        /\ \A i \in DOMAIN result :
              /\ result[i].id = scored_programs[i].program.id
              /\ ~Shares(scored_programs[i].program) <=> result[i].score = 0
        /\ top_n >= Len(VisiblePrograms) => Len(result) = Len(VisiblePrograms)

\* The scenario of the spec: item 1 shares the user's tags, item 2 shares
\* none, item 3 shares them and is invisible; topN = 2 returns items 1, 2.
C4_Witness ==
    /\ Returned /\ ScoredPath
    /\ Len(programs) = 3 /\ top_n = 2
    /\ Shares(programs[1]) /\ ~Shares(programs[2]) /\ Shares(programs[3])
    /\ PassesFilter(programs[1]) /\ PassesFilter(programs[2])
    /\ ~PassesFilter(programs[3])
    /\ Len(result) = 2
    /\ result[1].id = 1 /\ result[1].score > 0
    /\ result[2].id = 2 /\ result[2].score = 0

(* C5 *)

\* C5: recommend never raises on missing or sparse data: any answers, and any
\* given catalog whose items lack tags or the visible flag.
C5_NeverRaises == ~programs_is_None => pc # "raised"

(* C6 *)

\* C6: load_programs returns a catalog only for a source that is a readable
\* JSON object holding the item list; every other source raises.
C6_LoadFailsOnBadSource ==
    (programs_is_None /\ pc # "start" /\ ~(source.kind = "object" /\ source.has_programs))
        => pc = "raised"

(* C7 *)

\* C7 as claimed: for every integer topN the returned list has length at most
\* topN.
C7_LengthAtMostTopN == Returned => Len(result) <= top_n

\* C7 as amended: for every topN >= 0 the returned list has length at most
\* topN, and in the scored path exactly min(topN, number of items passing the
\* visibility filter).
C7_LengthAtMostTopN_NonNegative ==
    (Returned /\ top_n >= 0) =>
        /\ Len(result) <= top_n
        /\ ScoredPath => Len(result) = Min(top_n, Len(VisiblePrograms))

\* The scored path cut a longer list of visible items down to topN >= 1.
C7_Witness ==
    /\ Returned /\ ScoredPath
    /\ top_n >= 1
    /\ Len(VisiblePrograms) > top_n
    /\ Len(result) = top_n

(* C8 *)

\* C8: every returned score lies in [0.0, 1.0]: the squared dot product never
\* exceeds the product of the squared norms, and no TF-IDF or IDF weight is
\* negative.
C8_ScoreBounds ==
    (Returned /\ ScoredPath) =>
        /\ \A i \in DOMAIN result :
              /\ result[i].score >= 0 /\ result[i].score <= 1000
              /\ scored_programs[i].score.num >= 0
              /\ scored_programs[i].score.num <= scored_programs[i].score.den
        /\ \A t \in DOMAIN idf : idf[t] >= 0
        /\ \A t \in DOMAIN user_tfidf.num : user_tfidf.num[t] >= 0
        /\ user_tfidf.den > 0

\* A returned list holding a score of exactly 1 and a score strictly between
\* 0 and 1, with an IDF weight above 1.0 in play.
C8_Witness ==
    /\ Returned /\ ScoredPath
    /\ \E i, j \in DOMAIN result :
          /\ result[i].score = 1000
          /\ result[j].score > 0 /\ result[j].score < 1000
    /\ \E t \in DOMAIN idf : idf[t] > 10

(* C9 *)

Canonical(map, v) == IF v \in DOMAIN map THEN map[v] ELSE v

\* The tags build_user_profile is claimed to give when the scalar categories
\* in present_cats (in category order) count as present.
ProfileIs(tags, answers, present_cats) ==
    LET interests == InterestList(answers)
    IN  /\ Len(tags) = Len(present_cats) + Len(interests)
        /\ \A k \in DOMAIN present_cats :
              tags[k] = Canonical(CategoryMap(present_cats[k]),
                                  answers.scalars[present_cats[k]])
        /\ \A j \in DOMAIN interests :
              tags[Len(present_cats) + j] = Canonical(interest_map, interests[j])

\* C9 as claimed: one tag per present scalar category, in the order mood,
\* budget, company, time, location, then one tag per interest in input order;
\* known values are replaced by their canonical tag, unknown ones kept.
C9_OneTagPerPresentAnswer ==
    pc = "profiled" =>
        ProfileIs(user_tags, user_answers,
                  SelectSeq(ScalarCategories,
                            LAMBDA c : c \in DOMAIN user_answers.scalars))

\* C9 as amended: as claimed, with a scalar category counted only when its
\* value is present and not the empty string.
C9_OneTagPerNonEmptyAnswer ==
    pc = "profiled" =>
        ProfileIs(user_tags, user_answers,
                  SelectSeq(ScalarCategories,
                            LAMBDA c : /\ c \in DOMAIN user_answers.scalars
                                       /\ user_answers.scalars[c] # ""))

\* Five scalar answers present: one empty, one translated, one unknown and
\* kept verbatim; two equal interests, both kept.
C9_Witness ==
    /\ pc = "profiled"
    /\ DOMAIN user_answers.scalars = SetOf(ScalarCategories)
    /\ user_answers.scalars["mood"] = "active"
    /\ user_answers.scalars["budget"] = ""
    /\ user_answers.scalars["company"] = "zzz"
    /\ user_answers.interests.kind = "list"
    /\ user_answers.interests.list = <<"sport", "sport">>
    /\ Len(user_tags) = 6
    /\ user_tags[1] = "ru:aktivnyj"
    /\ user_tags[2] = "zzz"
    /\ user_tags[5] = "ru:sport" /\ user_tags[6] = "ru:sport"

(* C10 *)

\* C10: the keys of the IDF table are exactly the tags of the catalog's items,
\* visible or not; a tag's weight depends only on the number of items holding
\* it (repeats inside an item do not count), is strictly positive, and is
\* strictly smaller for a tag held by more items; an empty catalog gives an
\* empty table.
C10_IdfTable ==
    IdfBuilt =>
        /\ DOMAIN idf = AllCatalogTags
        /\ \A t \in DOMAIN idf : idf[t] > 0
        /\ \A t1, t2 \in DOMAIN idf :
              /\ Cardinality(DocsWith(t1)) = Cardinality(DocsWith(t2)) => idf[t1] = idf[t2]
              /\ Cardinality(DocsWith(t1)) < Cardinality(DocsWith(t2)) => idf[t1] > idf[t2]
        /\ programs = <<>> => idf = EmptyDict

\* A table over three tags: one repeated inside an item, one held only by an
\* invisible item, two held by different numbers of items.
C10_Witness ==
    /\ IdfBuilt
    /\ Len(programs) = 3
    /\ Cardinality(DOMAIN idf) = 3
    /\ \E i \in DOMAIN programs :
          /\ ~PassesFilter(programs[i])
          /\ "ru:aktivnyj" \in SetOf(ProgramTags(programs[i]))
    /\ Cardinality(DocsWith("ru:aktivnyj")) = 1
    /\ \E i \in DOMAIN programs : Count(ProgramTags(programs[i]), "ru:spa") = 2
    /\ Cardinality(DocsWith("ru:sport")) = 3
    /\ idf["ru:aktivnyj"] > idf["ru:spa"]
    /\ idf["ru:spa"] > idf["ru:sport"]

====
